---- MODULE Spec2Model ----
(***************************************************************************)
(* Heartbeat detection engine of expo-heartbeat: the HeartbeatDetector     *)
(* class (utils/heartbeat-detector, kept as src/unnamed/part_002) and the  *)
(* filter library src/utils/signal-processing.ts; and the component that   *)
(* drives it, HeartbeatMonitor (src/unnamed/part_000) with its hooks       *)
(* useCamera and useHeartbeatDetection (src/hooks).                        *)
(*                                                                         *)
(* Component.  A handler of the component (an event, a camera callback, a  *)
(* timer) is one step, together with the state updates it batches, the     *)
(* render they cause and that render's effects.  A function created by a   *)
(* render keeps the props and states of that render (Closure); only refs   *)
(* (isMountedRef, detectorRef) are read afresh.                            *)
(*                                                                         *)
(* Numbers.  The source computes with IEEE-754 doubles, whose every        *)
(* quotient and square root is rounded.  Here a measured quantity (a       *)
(* sample, a filtered value, a BPM) is an integer count of 1/Unit, and     *)
(* every `/` and Math.sqrt rounds to that grid; sums, differences and      *)
(* products by an integer are exact.  Counts, indices and millisecond      *)
(* timestamps are plain integers, as doubles hold them exactly.            *)
(* Where the rounding of a sum decides the outcome (normalize on a         *)
(* constant series) the function is also evaluated in binary floating      *)
(* point proper, normalizeRounded: every +, -, *, / and Math.sqrt rounds   *)
(* to nearest, ties to even, as IEEE 754 does, with a significand of       *)
(* Precision bits in place of 53.                                          *)
(*                                                                         *)
(* Indices.  Arrays are 0-based in the source and sequences 1-based here:  *)
(* At(a, i) reads a[i] of the source.  Peak indices keep the source's      *)
(* 0-based values.                                                         *)
(*                                                                         *)
(* Loops.  A `for` loop that folds a state through indices lo..hi is a     *)
(* RECURSIVE operator that splits the range in halves and runs the left    *)
(* half before the right one: the same body in the same order, with a      *)
(* recursion depth of log2 of the range.                                   *)
(***************************************************************************)
EXTENDS Integers, Sequences, FiniteSets, Bags, TLC

\* ------------------------------------------------------------ numbers

\* Resolution of the number grid: a number x is held as the integer x * Unit.
Unit == 128

\* The integer i as a number.
Num(i) == i * Unit

\* a / b for integers a and b > 0, rounded to the nearest integer.
RDiv(a, b) == (2 * a + b) \div (2 * b)

\* x / k: a number divided by an integer count k > 0.
DivN(x, k) == RDiv(x, k)

\* x / y: a number divided by a number y > 0.
Div(x, y) == RDiv(x * Unit, y)

\* x ** 2 of a number.
Square(x) == RDiv(x * x, Unit)

\* Largest r in lo..hi with r * r <= v (lo * lo <= v).
RECURSIVE SqrtSearch(_, _, _)
SqrtSearch(v, lo, hi) ==
    IF lo = hi THEN lo
    ELSE LET mid == (lo + hi + 1) \div 2
         IN  IF mid * mid <= v THEN SqrtSearch(v, mid, hi)
             ELSE SqrtSearch(v, lo, mid - 1)

\* Math.sqrt(x) of a number x >= 0.
Sqrt(x) == SqrtSearch(x * Unit, 0, 46340)

\* a[i] of the source, i counted from 0.
At(a, i) == a[i + 1]

Max(a, b) == IF a < b THEN b ELSE a

\* Sum of s[lo] .. s[hi] (1-based, inclusive); 0 when the range is empty.
RECURSIVE SumRange(_, _, _)
SumRange(s, lo, hi) ==
    IF hi < lo THEN 0
    ELSE IF lo = hi THEN s[lo]
    ELSE LET mid == (lo + hi) \div 2
         IN  SumRange(s, lo, mid) + SumRange(s, mid + 1, hi)

\* data.reduce((acc, val) => acc + val, 0)
Sum(s) == SumRange(s, 1, Len(s))

\* The optional values of the source: undefined / null is the empty
\* sequence, a present value v is <<v>>.
undefined == <<>>
null == <<>>
Some(v) == <<v>>

\* ------------------------------------------------- signal-processing.ts

\* movingAverage that divides every window sum by windowSize.
movingAverage_DividesByWindow(data, windowSize) ==
    [k \in 1..Len(data) |->
        DivN(SumRange(data, Max(0, k - windowSize) + 1, k), windowSize)]

\* movingAverage that starts at the first full window.
movingAverage_DropsWarmUp(data, windowSize) ==
    [k \in 1..Max(0, Len(data) - windowSize + 1) |->
        DivN(SumRange(data, k, k + windowSize - 1), windowSize)]

\* movingAverage(data, windowSize): for each i the mean of
\* data[max(0, i - windowSize + 1)] .. data[i].
movingAverage(data, windowSize) ==
    [k \in 1..Len(data) |->
        LET i     == k - 1
            first == Max(0, i - windowSize + 1)
            sum   == SumRange(data, first + 1, i + 1)
            count == i - first + 1
        IN  DivN(sum, count)]

\* detrend(data): subtracts the least-squares line fitted over the index.
detrend(data) ==
    IF Len(data) <= 1 THEN data
    ELSE LET n     == Len(data)
             sumX  == SumRange([k \in 1..n |-> k - 1], 1, n)
             sumY  == SumRange(data, 1, n)
             sumXY == SumRange([k \in 1..n |-> (k - 1) * data[k]], 1, n)
             sumXX == SumRange([k \in 1..n |-> (k - 1) * (k - 1)], 1, n)
             slope     == DivN(n * sumXY - sumX * sumY, n * sumXX - sumX * sumX)
             intercept == DivN(sumY - slope * sumX, n)
         IN  [k \in 1..n |-> data[k] - (slope * (k - 1) + intercept)]

\* normalize(data): zero mean, unit (population) standard deviation; all
\* zeros when the standard deviation is 0.
normalize(data) ==
    IF Len(data) = 0 THEN <<>>
    ELSE LET n            == Len(data)
             sum          == Sum(data)
             mean         == DivN(sum, n)
             squaredDiffs == [k \in 1..n |-> Square(data[k] - mean)]
             variance     == DivN(Sum(squaredDiffs), n)
             stdDev       == Sqrt(variance)
         IN  IF stdDev = 0 THEN [k \in 1..n |-> 0]
             ELSE [k \in 1..n |-> Div(data[k] - mean, stdDev)]

\* ---------------------------------------------- floating-point numbers

\* Bits of the significand of a floating-point number (53 in a double).
Precision == 3

\* A floating-point number is <<m, e>>, standing for m * 2^e: m = 0 = e, or
\* 2^(Precision - 1) <= |m| < 2^Precision.
Zero == <<0, 0>>

Abs(x) == IF x < 0 THEN 0 - x ELSE x

Sign(x) == IF x < 0 THEN 0 - 1 ELSE 1

Min(a, b) == IF a < b THEN a ELSE b

\* The number of bits of the integer n >= 0.
Bits(n) == CHOOSE b \in 0..30 : (b = 0 \/ 2 ^ (b - 1) <= n) /\ n < 2 ^ b

\* The floating-point number nearest to (q + f) * 2^e, ties to even, for an
\* integer q > 0 and a fraction f that is 0, or in (0, 1) when sticky.
RoundToNearest(q, sticky, e) ==
    LET k == Bits(q) - Precision
    IN  IF k <= 0 THEN <<q * 2 ^ (0 - k), e + k>>
        ELSE LET kept == q \div 2 ^ k
                 rest == q % 2 ^ k
                 half == 2 ^ (k - 1)
                 up   == \/ half < rest
                         \/ rest = half /\ (sticky \/ kept % 2 = 1)
                 m    == IF up THEN kept + 1 ELSE kept
             IN  IF m = 2 ^ Precision THEN <<2 ^ (Precision - 1), e + k + 1>>
                 ELSE <<m, e + k>>

\* The floating-point number nearest to the integer n times 2^e.
Fl(n, e) ==
    IF n = 0 THEN Zero
    ELSE LET r == RoundToNearest(Abs(n), FALSE, e)
         IN  <<Sign(n) * r[1], r[2]>>

\* a + b
FlAdd(a, b) ==
    IF a[1] = 0 THEN b
    ELSE IF b[1] = 0 THEN a
    ELSE IF Precision + 2 < a[2] - b[2] THEN a
    ELSE IF Precision + 2 < b[2] - a[2] THEN b
    ELSE LET e == Min(a[2], b[2])
         IN  Fl(a[1] * 2 ^ (a[2] - e) + b[1] * 2 ^ (b[2] - e), e)

\* a - b
FlSub(a, b) == FlAdd(a, <<0 - b[1], b[2]>>)

\* a * b
FlMul(a, b) == Fl(a[1] * b[1], a[2] + b[2])

\* a / b, b not 0
FlDiv(a, b) ==
    IF a[1] = 0 THEN Zero
    ELSE LET num == Abs(a[1]) * 2 ^ (Precision + 1)
             den == Abs(b[1])
             r   == RoundToNearest(num \div den, num % den # 0,
                                   a[2] - b[2] - (Precision + 1))
         IN  <<Sign(a[1]) * Sign(b[1]) * r[1], r[2]>>

\* Math.sqrt(a), a >= 0
FlSqrt(a) ==
    IF a[1] = 0 THEN Zero
    ELSE LET shift == IF (a[2] - (Precision + 2)) % 2 = 0 THEN Precision + 2
                      ELSE Precision + 3
             n     == a[1] * 2 ^ shift
             root  == CHOOSE r \in 0..(2 ^ (Precision + 2)) :
                          r * r <= n /\ n < (r + 1) * (r + 1)
         IN  RoundToNearest(root, root * root # n, (a[2] - shift) \div 2)

\* data.reduce((acc, val) => acc + val, acc) from index k (1-based) on.
RECURSIVE FlReduce(_, _, _)
FlReduce(data, k, acc) ==
    IF Len(data) < k THEN acc
    ELSE FlReduce(data, k + 1, FlAdd(acc, data[k]))

\* normalize(data) in floating point.
normalizeRounded(data) ==
    IF Len(data) = 0 THEN <<>>
    ELSE LET n            == Fl(Len(data), 0)
             sum          == FlReduce(data, 1, Zero)
             mean         == FlDiv(sum, n)
             squaredDiffs == [k \in 1..Len(data) |->
                                 FlMul(FlSub(data[k], mean),
                                       FlSub(data[k], mean))]
             variance     == FlDiv(FlReduce(squaredDiffs, 1, Zero), n)
             stdDev       == FlSqrt(variance)
         IN  IF stdDev = Zero THEN [k \in 1..Len(data) |-> Zero]
             ELSE [k \in 1..Len(data) |->
                      FlDiv(FlSub(data[k], mean), stdDev)]

\* findPeaksStep with one change: "plateau" also takes a sample equal to
\* its right neighbour for a local maximum, "tie" lets a local maximum
\* replace a close peak of the same height, "both" keeps a close peak next
\* to the higher local maximum that would replace it.
findPeaksStepChanged(data, minHeight, minDistance, i, peaks, change) ==
    IF /\ At(data, i - 1) < At(data, i)
       /\ IF change = "plateau" THEN At(data, i + 1) <= At(data, i)
          ELSE At(data, i + 1) < At(data, i)
    THEN IF minHeight = undefined \/ minHeight[1] < At(data, i)
         THEN IF \/ minDistance = undefined
                 \/ Len(peaks) = 0
                 \/ minDistance[1] <= i - peaks[Len(peaks)]
              THEN Append(peaks, i)
              ELSE IF IF change = "tie"
                      THEN At(data, peaks[Len(peaks)]) <= At(data, i)
                      ELSE At(data, peaks[Len(peaks)]) < At(data, i)
                   THEN IF change = "both" THEN Append(peaks, i)
                        ELSE [peaks EXCEPT ![Len(peaks)] = i]
                   ELSE peaks
         ELSE peaks
    ELSE peaks

findPeaksStep_KeepsBoth(data, minHeight, minDistance, i, peaks) ==
    findPeaksStepChanged(data, minHeight, minDistance, i, peaks, "both")

findPeaksStep_AcceptsPlateau(data, minHeight, minDistance, i, peaks) ==
    findPeaksStepChanged(data, minHeight, minDistance, i, peaks, "plateau")

findPeaksStep_ReplacesOnTie(data, minHeight, minDistance, i, peaks) ==
    findPeaksStepChanged(data, minHeight, minDistance, i, peaks, "tie")

\* One iteration of findPeaks's loop at index i (0-based) with the peaks
\* accepted so far.
findPeaksStep(data, minHeight, minDistance, i, peaks) ==
    IF At(data, i - 1) < At(data, i) /\ At(data, i + 1) < At(data, i)
    THEN IF minHeight = undefined \/ minHeight[1] < At(data, i)
         THEN IF \/ minDistance = undefined
                 \/ Len(peaks) = 0
                 \/ minDistance[1] <= i - peaks[Len(peaks)]
              THEN Append(peaks, i)
              ELSE IF At(data, peaks[Len(peaks)]) < At(data, i)
                   THEN [peaks EXCEPT ![Len(peaks)] = i]
                   ELSE peaks
         ELSE peaks
    ELSE peaks

\* findPeaks's loop over i = lo..hi, in order.
RECURSIVE findPeaksLoop(_, _, _, _, _, _)
findPeaksLoop(data, minHeight, minDistance, lo, hi, peaks) ==
    IF hi < lo THEN peaks
    ELSE IF lo = hi THEN findPeaksStep(data, minHeight, minDistance, lo, peaks)
    ELSE LET mid  == (lo + hi) \div 2
             left == findPeaksLoop(data, minHeight, minDistance, lo, mid, peaks)
         IN  IF Len(left) >= 0
             THEN findPeaksLoop(data, minHeight, minDistance, mid + 1, hi, left)
             ELSE left

\* findPeaks(data, minHeight?, minDistance?): 0-based indices of the
\* accepted local maxima, ascending.
findPeaks(data, minHeight, minDistance) ==
    IF Len(data) < 3 THEN <<>>
    ELSE findPeaksLoop(data, minHeight, minDistance, 1, Len(data) - 2, <<>>)

\* The sample at index i (0-based) of a series differenced in place: the
\* value subtracted at i is the already-differenced one at i - lowCutSize.
RECURSIVE DifferencedInPlace(_, _, _)
DifferencedInPlace(data, lowCutSize, i) ==
    IF i < lowCutSize THEN At(data, i)
    ELSE At(data, i) - DifferencedInPlace(data, lowCutSize, i - lowCutSize)

\* bandpassFilter whose high-pass stage overwrites the series as it goes.
bandpassFilter_DifferencesInPlace(data, lowCutSize, highCutSize) ==
    movingAverage([k \in 1..Len(data) |->
                      DifferencedInPlace(data, lowCutSize, k - 1)],
                  highCutSize)

\* bandpassFilter(data, lowCutSize, highCutSize): lagged difference, then
\* moving average.
bandpassFilter(data, lowCutSize, highCutSize) ==
    LET highPassResult ==
            [k \in 1..Len(data) |->
                LET i == k - 1
                IN  IF i < lowCutSize THEN At(data, i)
                    ELSE At(data, i) - At(data, i - lowCutSize)]
    IN  movingAverage(highPassResult, highCutSize)

\* --------------------------------------------------- HeartbeatDetector

\* The callbacks invoked in a processFrame call, run before the estimate
\* of the call is stored.
invokeOnPeakDetected_BeforeUpdate(invoked, fb, ts, bpm, prevBpm) ==
    IF invoked = <<"g">>
    THEN [frameBuffer |-> <<>>, timestamps |-> <<>>,
          lastBpm |-> IF bpm # prevBpm THEN bpm ELSE <<>>,
          observed |-> <<>>, reset |-> TRUE]
    ELSE [frameBuffer |-> fb, timestamps |-> ts, lastBpm |-> bpm,
          observed |-> IF invoked = <<"f">> THEN <<prevBpm>> ELSE <<>>,
          reset |-> FALSE]

\* this.onPeakDetectedCallback() at the end of processBufferedData, for the
\* callbacks "f" = () => detector.getBPM() and "g" = () => detector.reset():
\* the detector's buffers and estimate when processFrame returns, given
\* the buffers fb / ts and the estimate bpm stored when the callback is
\* reached (prevBpm before the call); what getBPM() returned; whether
\* reset() ran.
invokeOnPeakDetected(invoked, fb, ts, bpm, prevBpm) ==
    IF invoked = <<"g">>
    THEN [frameBuffer |-> <<>>, timestamps |-> <<>>, lastBpm |-> <<>>,
          observed |-> <<>>, reset |-> TRUE]
    ELSE [frameBuffer |-> fb, timestamps |-> ts, lastBpm |-> bpm,
          observed |-> IF invoked = <<"f">> THEN <<bpm>> ELSE <<>>,
          reset |-> FALSE]

\* A detector that starts processing after 60 frames.
minFramesRequired_Sixty == 100 - 40

\* A detector that still processes a buffer of 90 samples.
minFramesRequired_Ninety == 100 - 10

minFramesRequired == 100
maxBufferTimeMs == 10000
movingAverageWindow == 5
minPeakDistance == 10
minValidBpm == 40
maxValidBpm == 200

\* extractRedChannelAverage(frameData): mean red value over the middle 50%
\* of the image; data holds 4 bytes (R, G, B, A) per pixel, 0-based.
extractRedChannelAverage(frameData) ==
    LET width  == frameData.width
        height == frameData.height
        data   == frameData.data
        startX == width \div 4
        endX   == (3 * width) \div 4
        startY == height \div 4
        endY   == (3 * height) \div 4
        cols   == endX - startX
        pixelCount == IF 0 < cols /\ startY < endY THEN cols * (endY - startY) ELSE 0
        reds   == [p \in 1..pixelCount |->
                      LET y == startY + ((p - 1) \div cols)
                          x == startX + ((p - 1) % cols)
                          pixelIndex == (y * width + x) * 4
                      IN  data[pixelIndex]]
        redSum == Sum(reds)
    IN  IF 0 < pixelCount THEN DivN(Num(redSum), pixelCount) ELSE 0

\* manageBufferSize with one change: "never" shifts nothing, "values" shifts
\* the timestamps only, "inclusive" also shifts a sample exactly
\* maxBufferTimeMs old.
manageBufferSizeChanged(fb, ts, currentTime, change) ==
    LET stops == {k \in 0..Len(ts) :
                    \/ k = Len(ts)
                    \/ IF change = "inclusive"
                       THEN ~(maxBufferTimeMs <= currentTime - At(ts, k))
                       ELSE ~(maxBufferTimeMs < currentTime - At(ts, k))}
        shifts == IF change = "never" THEN 0
                  ELSE CHOOSE k \in stops : \A j \in stops : k <= j
    IN  [frameBuffer |-> IF change = "values" THEN fb
                         ELSE SubSeq(fb, shifts + 1, Len(fb)),
         timestamps  |-> SubSeq(ts, shifts + 1, Len(ts)),
         evicted     |-> [k \in 1..shifts |->
                            [timestamp |-> ts[k], currentTime |-> currentTime]]]

manageBufferSize_NeverEvicts(fb, ts, currentTime) ==
    manageBufferSizeChanged(fb, ts, currentTime, "never")

manageBufferSize_KeepsValues(fb, ts, currentTime) ==
    manageBufferSizeChanged(fb, ts, currentTime, "values")

manageBufferSize_EvictsAtLimit(fb, ts, currentTime) ==
    manageBufferSizeChanged(fb, ts, currentTime, "inclusive")

\* manageBufferSize() with Date.now() = currentTime: shifts both arrays
\* while the front timestamp is more than maxBufferTimeMs behind
\* currentTime.  The loop stops at the first index k whose timestamp is not
\* stale (or at the end), so it shifts exactly k entries; evicted lists them.
manageBufferSize(fb, ts, currentTime) ==
    LET stops == {k \in 0..Len(ts) :
                    \/ k = Len(ts)
                    \/ ~(maxBufferTimeMs < currentTime - At(ts, k))}
        shifts == CHOOSE k \in stops : \A j \in stops : k <= j
    IN  [frameBuffer |-> SubSeq(fb, shifts + 1, Len(fb)),
         timestamps  |-> SubSeq(ts, shifts + 1, Len(ts)),
         evicted     |-> [k \in 1..shifts |->
                            [timestamp |-> ts[k], currentTime |-> currentTime]]]

\* processSignal(buffer): the fixed filter pipeline.
processSignal(buffer) ==
    LET processed1 == movingAverage(buffer, movingAverageWindow)
        processed2 == detrend(processed1)
        processed3 == bandpassFilter(processed2, 10, 3)
        processed4 == normalize(processed3)
    IN  processed4

\* calculateBPM that averages over every interval, the non-positive ones
\* counted as intervals of 0 ms.
calculateBPM_CountsEveryInterval(peakIndices, ts) ==
    LET diffs == [i \in 1..(Len(peakIndices) - 1) |->
                    At(ts, At(peakIndices, i)) - At(ts, At(peakIndices, i - 1))]
        timeDiffs == SelectSeq(diffs, LAMBDA timeDiff : 0 < timeDiff)
    IN  IF Len(timeDiffs) = 0 THEN 0
        ELSE Div(Num(60000), DivN(Num(Sum(timeDiffs)), Len(diffs)))

\* calculateBPM that answers the lower bound when no interval is positive.
calculateBPM_DefaultsToMinimum(peakIndices, ts) ==
    LET diffs == [i \in 1..(Len(peakIndices) - 1) |->
                    At(ts, At(peakIndices, i)) - At(ts, At(peakIndices, i - 1))]
        timeDiffs == SelectSeq(diffs, LAMBDA timeDiff : 0 < timeDiff)
    IN  IF Len(timeDiffs) = 0 THEN Num(minValidBpm)
        ELSE Div(Num(60000), DivN(Num(Sum(timeDiffs)), Len(timeDiffs)))

\* calculateBPM(peakIndices): 60000 / mean of the positive differences of
\* the buffer timestamps at consecutive peaks; 0 when there is none.
calculateBPM(peakIndices, ts) ==
    LET diffs == [i \in 1..(Len(peakIndices) - 1) |->
                    LET currentPeakIndex == At(peakIndices, i)
                        prevPeakIndex    == At(peakIndices, i - 1)
                        currentTime      == At(ts, currentPeakIndex)
                        prevTime         == At(ts, prevPeakIndex)
                    IN  currentTime - prevTime]
        timeDiffs == SelectSeq(diffs, LAMBDA timeDiff : 0 < timeDiff)
    IN  IF Len(timeDiffs) = 0 THEN 0
        ELSE LET avgTimeBetweenPeaks == DivN(Num(Sum(timeDiffs)), Len(timeDiffs))
                 bpm == Div(Num(60000), avgTimeBetweenPeaks)
             IN  bpm

\* isValidBpm without its lower bound, and without its upper bound.
isValidBpm_NoLowerBound(bpm) == bpm <= Num(maxValidBpm)

isValidBpm_NoUpperBound(bpm) == Num(minValidBpm) <= bpm

\* isValidBpm(bpm)
isValidBpm(bpm) == Num(minValidBpm) <= bpm /\ bpm <= Num(maxValidBpm)

\* What a processFrame call that never reaches the pipeline reports.
NotProcessed(bpm) ==
    [lastBpm |-> bpm, invoked |-> <<>>, ran |-> FALSE, processedLength |-> 0,
     peakIndices |-> <<>>, calculatedBpm |-> null]

\* processBufferedData with one change: "clear" drops the estimate when the
\* computed BPM is invalid, "always" fires the callback whatever the position
\* of the last peak, "valid" fires it only when the computed BPM is valid,
\* "forget" drops the estimate when fewer than 2 peaks are found, "once"
\* fires the callback only in the first call that can see the last peak.
processBufferedDataChanged(fb, ts, bpm, cb, change) ==
    IF Len(fb) < minFramesRequired THEN NotProcessed(bpm)
    ELSE LET processedData == processSignal(fb)
             peakIndices   == findPeaks(processedData, undefined, Some(minPeakDistance))
         IN  IF 2 <= Len(peakIndices)
             THEN LET calculatedBpm == calculateBPM(peakIndices, ts)
                      lastPeakIndex == At(peakIndices, Len(peakIndices) - 1)
                      isRecentPeak  == Len(processedData) - lastPeakIndex < 5
                      fires == CASE change = "always" -> cb # "null"
                                 [] change = "once" ->
                                        /\ cb # "null"
                                        /\ Len(processedData) - lastPeakIndex < 3
                                 [] change = "valid"  -> /\ cb # "null" /\ isRecentPeak
                                                         /\ isValidBpm(calculatedBpm)
                                 [] OTHER -> cb # "null" /\ isRecentPeak
                  IN  [lastBpm |-> IF isValidBpm(calculatedBpm) THEN Some(calculatedBpm)
                                   ELSE IF change = "clear" THEN null ELSE bpm,
                       invoked |-> IF fires THEN <<cb>> ELSE <<>>,
                       ran |-> TRUE,
                       processedLength |-> Len(processedData),
                       peakIndices |-> peakIndices,
                       calculatedBpm |-> Some(calculatedBpm)]
             ELSE [lastBpm |-> IF change = "forget" THEN null ELSE bpm,
                   invoked |-> <<>>, ran |-> TRUE,
                   processedLength |-> Len(processedData),
                   peakIndices |-> peakIndices, calculatedBpm |-> null]

processBufferedData_ForgetsWithoutPeaks(fb, ts, bpm, cb) ==
    processBufferedDataChanged(fb, ts, bpm, cb, "forget")

processBufferedData_ClearsInvalid(fb, ts, bpm, cb) ==
    processBufferedDataChanged(fb, ts, bpm, cb, "clear")

processBufferedData_FiresAnyPeak(fb, ts, bpm, cb) ==
    processBufferedDataChanged(fb, ts, bpm, cb, "always")

processBufferedData_FiresIfValid(fb, ts, bpm, cb) ==
    processBufferedDataChanged(fb, ts, bpm, cb, "valid")

processBufferedData_FiresOncePerPeak(fb, ts, bpm, cb) ==
    processBufferedDataChanged(fb, ts, bpm, cb, "once")

\* processBufferedData() on buffer fb / ts with stored estimate bpm and
\* registered callback cb: the new estimate, the callbacks invoked in
\* order, and what the call computed on the way.
processBufferedData(fb, ts, bpm, cb) ==
    IF Len(fb) < minFramesRequired THEN NotProcessed(bpm)
    ELSE LET processedData == processSignal(fb)
             peakIndices   == findPeaks(processedData, undefined, Some(minPeakDistance))
         IN  IF 2 <= Len(peakIndices)
             THEN LET calculatedBpm == calculateBPM(peakIndices, ts)
                      lastPeakIndex == At(peakIndices, Len(peakIndices) - 1)
                      isRecentPeak  == Len(processedData) - lastPeakIndex < 5
                  IN  [lastBpm |-> IF isValidBpm(calculatedBpm)
                                   THEN Some(calculatedBpm) ELSE bpm,
                       invoked |-> IF cb # "null" /\ isRecentPeak
                                   THEN <<cb>> ELSE <<>>,
                       ran |-> TRUE,
                       processedLength |-> Len(processedData),
                       peakIndices |-> peakIndices,
                       calculatedBpm |-> Some(calculatedBpm)]
             ELSE [lastBpm |-> bpm, invoked |-> <<>>, ran |-> TRUE,
                   processedLength |-> Len(processedData),
                   peakIndices |-> peakIndices, calculatedBpm |-> null]

\* ---------------------------------------------------------- environment

\* Bounds of the explored runs: frames fed between two resets, capture
\* stalls and their length, and clock ticks between the two readings of
\* Date.now() in one processFrame call.
MaxFrames == 104
MaxStalls == 1
StallMs == 4000
MaxSkew == 1

\* Milliseconds between two captured frames, fixed per run.
Cadences == {10, 15, 50, 75, 100}

\* The red level of successive frames: a triangular pulse of 20 frames.
Pulse == <<7, 6, 5, 4, 3, 2, 1, 0, 1, 2, 3, 4, 5, 6, 7, 8, 9, 10, 9, 8>>

\* The red level of frame k (from 0) of a signal: the pulse, or two early
\* beats 13 frames apart followed by a flat line.
Red(signal, k) ==
    IF signal = "pulse" THEN Pulse[(k % Len(Pulse)) + 1]
    ELSE IF k = 1 \/ k = 14 THEN 10 ELSE 0

\* The capture sessions explored: the pulse at each cadence, the pulse with
\* every frame inside one clock tick of the previous one, and the fading
\* signal.  stall is the length of a capture stall in the session.
Sessions ==
    {[cadence |-> c, signal |-> "pulse", stall |-> StallMs] : c \in Cadences}
    \cup {[cadence |-> 0, signal |-> "pulse", stall |-> StallMs \div 3],
          [cadence |-> 100, signal |-> "fading", stall |-> StallMs]}

\* The callbacks a client registers, in the order it registers them: each
\* registration passes a new function.
Callbacks == <<"f", "g">>

\* A 4 x 4 RGBA frame whose pixels all have red level red.
Frame(red) ==
    [width |-> 4, height |-> 4,
     data |-> [j \in 0..63 |-> IF j % 4 = 0 THEN red ELSE IF j % 4 = 3 THEN 255 ELSE 0]]

VARIABLES
    frameBuffer,            \* this.frameBuffer
    timestamps,             \* this.timestamps
    lastBpm,                \* this.lastBpm: null or Some(bpm)
    onPeakDetectedCallback, \* this.onPeakDetectedCallback: "null" or a callback
    frameTime,              \* Date.now() when the latest frame was stored
    cadence,                \* ms from one frame to the next
    signal,                 \* the signal the camera sees
    stallMs,                \* ms a capture stall lasts
    sinceReset,             \* processFrame calls since construction or reset()
    stalls,                 \* capture stalls since construction or reset()
    last,                   \* what the latest processFrame or reset call did
    registered,             \* the latest setOnPeakDetectedCallback call
    input,                  \* the series handed to a signal-processing function
    call,                   \* the latest call of a signal-processing function
    app                     \* the HeartbeatMonitor component and its two hooks

session == <<cadence, signal, stallMs>>

\* The state of the callers: of the signal-processing functions, and of the
\* detector from the React component.
harness == <<input, call, app>>

\* The state of the detector and of its environment.
detector == <<frameBuffer, timestamps, lastBpm, onPeakDetectedCallback,
              frameTime, session, sinceReset, stalls, last, registered>>

vars == <<frameBuffer, timestamps, lastBpm, onPeakDetectedCallback,
          frameTime, cadence, signal, stallMs, sinceReset, stalls, last,
          registered, input, call, app>>

\* The state of the component: isMountedRef.current of the hooks (mounted),
\* the state isDetecting of HeartbeatMonitor, the states isCameraReady and
\* isProcessing of useCamera, the state heartRate of useHeartbeatDetection
\* and whether its setInterval is running (polling), the function passed
\* as onPeakDetected, the pictures being taken and the setTimeout calls
\* pending, each with the values its captureFrame closure holds, and the
\* counts of toggleDetection calls, capture errors and frames delivered to
\* onFrameCapture (delivered, modulo 2).  NoApp is no component at all.
NoApp ==
    [mounted |-> FALSE, isDetecting |-> FALSE, isCameraReady |-> FALSE,
     isProcessing |-> FALSE, heartRate |-> <<>>, polling |-> FALSE,
     onPeakDetected |-> "null", pictures |-> EmptyBag, timers |-> EmptyBag,
     toggles |-> 0, errors |-> 0, delivered |-> 0]

\* No signal-processing function was called yet.
NoCall == [fn |-> "none", args |-> <<>>, result |-> <<>>, peaks |-> <<>>]

\* getBPM()
getBPM == lastBpm

\* getBuffer()
getBuffer == frameBuffer

\* The record of a call that is no processFrame: op is the call, prevBpm and
\* prevLength the estimate and the buffer length it found.  A processFrame
\* call also records the timestamps it found (prevTimestamps), the one it
\* stored (pushed), the
\* timestamps it evicted, each with the clock reading it was compared
\* against, the callback registered and the callbacks it invoked, whether the
\* pipeline ran, and the filtered length, the peaks and the BPM it computed;
\* the callbacks invoked and the peaks found by the processFrame call before
\* it, if no reset() came between them (prevInvoked, prevPeakIndices); and
\* what a callback that calls getBPM() was returned (observed).
Did(op) ==
    [op |-> op, prevBpm |-> lastBpm, prevLength |-> Len(frameBuffer),
     prevTimestamps |-> <<>>, pushed |-> 0,
     evicted |-> <<>>, callback |-> onPeakDetectedCallback,
     invoked |-> <<>>, ran |-> FALSE, processedLength |-> 0,
     peakIndices |-> <<>>, calculatedBpm |-> null,
     prevInvoked |-> <<>>, prevPeakIndices |-> <<>>, observed |-> <<>>]

Constructed ==
    /\ frameBuffer = <<>>
    /\ timestamps = <<>>
    /\ lastBpm = null
    /\ onPeakDetectedCallback = "null"
    /\ frameTime = 0
    /\ \E s \in Sessions :
           cadence = s.cadence /\ signal = s.signal /\ stallMs = s.stall
    /\ registered = [callback |-> "null", survivedReset |-> FALSE]
    /\ sinceReset = 0
    /\ stalls = 0
    /\ last = [op |-> "new", prevBpm |-> null, prevLength |-> 0,
               prevTimestamps |-> <<>>, pushed |-> 0,
               evicted |-> <<>>, callback |-> "null",
               invoked |-> <<>>, ran |-> FALSE, processedLength |-> 0,
               peakIndices |-> <<>>, calculatedBpm |-> null,
               prevInvoked |-> <<>>, prevPeakIndices |-> <<>>,
               observed |-> <<>>]

Init ==
    /\ Constructed
    /\ input = <<>>
    /\ call = NoCall
    /\ app = NoApp

\* The callbacks the client has not registered yet.
Unregistered ==
    {k \in 1..Len(Callbacks) :
        \A j \in k..Len(Callbacks) : Callbacks[j] # registered.callback}

\* setOnPeakDetectedCallback(callback) that keeps a callback already held.
SetOnPeakDetectedCallback_KeepsFirst ==
    \E k \in Unregistered :
        /\ \A j \in Unregistered : k <= j
        /\ onPeakDetectedCallback' = IF onPeakDetectedCallback = "null"
                                     THEN Callbacks[k]
                                     ELSE onPeakDetectedCallback
        /\ registered' = [callback |-> Callbacks[k], survivedReset |-> FALSE]
        /\ UNCHANGED <<frameBuffer, timestamps, lastBpm, frameTime, session,
                       sinceReset, stalls, last, harness>>

\* setOnPeakDetectedCallback(callback), callback the next function the
\* client registers.  registered records the call: the function passed, and
\* that no reset() followed it yet.
SetOnPeakDetectedCallback ==
    \E k \in Unregistered :
        /\ \A j \in Unregistered : k <= j
        /\ onPeakDetectedCallback' = Callbacks[k]
        /\ registered' = [callback |-> Callbacks[k], survivedReset |-> FALSE]
        /\ UNCHANGED <<frameBuffer, timestamps, lastBpm, frameTime, session,
                       sinceReset, stalls, last, harness>>

\* processFrame(frameData).  The frame arrives cadence ms after the previous
\* one, or stallMs later when the capture stalled (stalls are explored once
\* the buffer is full enough to be processed); Date.now() is read once to
\* stamp the sample (now1) and once more in manageBufferSize (now2), and the
\* clock may have ticked in between.  Time is counted from the construction
\* or the latest reset(): the detector only subtracts a stored timestamp from
\* a later reading, and reset() drops every stored timestamp, so the origin
\* of the clock is not observable across a reset.  The red level follows
\* the session's signal from its start after each reset.
\*
\* The callbacks of a client are functions that leave the detector alone
\* (acting = FALSE), or functions that call back into it (acting = TRUE):
\* "f" calls getBPM() and "g" calls reset().
ProcessFrameCalling(acting) ==
    /\ sinceReset < MaxFrames
    /\ \E stall \in {0} \cup (IF stalls < MaxStalls /\ minFramesRequired <= Len(frameBuffer)
                              THEN {stallMs} ELSE {}),
          skew \in 0..MaxSkew :
        LET frameData  == Frame(Red(signal, sinceReset))
            redAverage == extractRedChannelAverage(frameData)
            now1       == frameTime + cadence + stall
            now2       == now1 + skew
            managed    == manageBufferSize(Append(frameBuffer, redAverage),
                                           Append(timestamps, now1), now2)
        IN  \E processed \in
                {IF minFramesRequired <= Len(managed.frameBuffer)
                 THEN processBufferedData(managed.frameBuffer, managed.timestamps,
                                          lastBpm, onPeakDetectedCallback)
                 ELSE NotProcessed(lastBpm)} :
            \E returned \in
                {IF acting
                 THEN invokeOnPeakDetected(processed.invoked,
                          managed.frameBuffer, managed.timestamps,
                          processed.lastBpm, lastBpm)
                 ELSE [frameBuffer |-> managed.frameBuffer,
                       timestamps |-> managed.timestamps,
                       lastBpm |-> processed.lastBpm,
                       observed |-> <<>>, reset |-> FALSE]} :
            /\ frameBuffer' = returned.frameBuffer
            /\ timestamps' = returned.timestamps
            /\ lastBpm' = returned.lastBpm
            /\ frameTime' = IF returned.reset THEN 0 ELSE now1
            /\ sinceReset' = IF returned.reset THEN 0 ELSE sinceReset + 1
            /\ stalls' = IF returned.reset THEN 0
                         ELSE IF stall = 0 THEN stalls ELSE stalls + 1
            /\ last' = [op |-> "processFrame", prevBpm |-> lastBpm,
                        prevLength |-> Len(frameBuffer),
                        prevTimestamps |-> timestamps, pushed |-> now1,
                        evicted |-> managed.evicted,
                        callback |-> onPeakDetectedCallback,
                        invoked |-> processed.invoked, ran |-> processed.ran,
                        processedLength |-> processed.processedLength,
                        peakIndices |-> processed.peakIndices,
                        calculatedBpm |-> processed.calculatedBpm,
                        prevInvoked |-> IF last.op = "processFrame"
                                        THEN last.invoked ELSE <<>>,
                        prevPeakIndices |-> IF last.op = "processFrame"
                                            THEN last.peakIndices ELSE <<>>,
                        observed |-> returned.observed]
            /\ registered' =
                   IF returned.reset
                   THEN [registered EXCEPT
                             !.survivedReset = registered.callback # "null"]
                   ELSE registered
            /\ UNCHANGED <<onPeakDetectedCallback, session, harness>>

\* processFrame(frameData) of a client whose callbacks leave the detector
\* alone.
ProcessFrame == ProcessFrameCalling(FALSE)

\* reset() that forgets to clear the estimate.
Reset_KeepsEstimate ==
    /\ frameBuffer' = <<>>
    /\ timestamps' = <<>>
    /\ sinceReset' = 0
    /\ frameTime' = 0
    /\ stalls' = 0
    /\ last' = Did("reset")
    /\ registered' = [registered EXCEPT
                          !.survivedReset = registered.callback # "null"]
    /\ UNCHANGED <<lastBpm, onPeakDetectedCallback, session, harness>>

\* reset() that also drops the registered callback.
Reset_DropsCallback ==
    /\ frameBuffer' = <<>>
    /\ timestamps' = <<>>
    /\ lastBpm' = null
    /\ onPeakDetectedCallback' = "null"
    /\ sinceReset' = 0
    /\ frameTime' = 0
    /\ stalls' = 0
    /\ last' = Did("reset")
    /\ registered' = [registered EXCEPT
                          !.survivedReset = registered.callback # "null"]
    /\ UNCHANGED <<session, harness>>

\* reset()
Reset ==
    /\ frameBuffer' = <<>>
    /\ timestamps' = <<>>
    /\ lastBpm' = null
    /\ sinceReset' = 0
    /\ frameTime' = 0
    /\ stalls' = 0
    /\ last' = Did("reset")
    /\ registered' = [registered EXCEPT
                          !.survivedReset = registered.callback # "null"]
    /\ UNCHANGED <<onPeakDetectedCallback, session, harness>>

Next == SetOnPeakDetectedCallback \/ ProcessFrame \/ Reset

Spec == Init /\ [][Next]_vars

\* ------------------------------------- callbacks that call the detector

\* processFrame(frameData) of a client whose callbacks call getBPM() and
\* reset().
ProcessFrameReentrant == ProcessFrameCalling(TRUE)

\* A session of frames 15 ms apart.
InitReentrant == Init /\ cadence = 15

NextReentrant == SetOnPeakDetectedCallback \/ ProcessFrameReentrant \/ Reset

SpecReentrant == InitReentrant /\ [][NextReentrant]_vars

\* ------------------------------- HeartbeatMonitor and its two hooks

\* Bounds of the explored runs of the component: presses of the
\* start / stop button and failed captures.
MaxToggles == 3
MaxErrors == 1

\* The values the functions created by a render hold for good: the prop
\* enabled and the states isCameraReady and isProcessing of that render.
\* captureFrame, the onPictureSaved handler it passes to the camera, the
\* onFrameCapture it calls and heartbeat.processFrame behind it all belong
\* to one render, and a captureFrame restarted from its own handler or
\* timer is that same function again.
Closure(a) ==
    [enabled |-> a.isDetecting, isCameraReady |-> a.isCameraReady,
     isProcessing |-> a.isProcessing]

\* captureFrame that takes a picture whatever isProcessing says.
captureFrame_IgnoresProcessing(c, a) ==
    IF ~c.enabled \/ ~a.mounted \/ ~c.isCameraReady THEN a
    ELSE [a EXCEPT !.isProcessing = TRUE,
                   !.pictures = @ (+) SetToBag({c})]

\* captureFrame() of the render with closure c, up to its await: nothing
\* when disabled, unmounted or not ready; a 10 ms timer when isProcessing;
\* else setIsProcessing(true) and takePictureAsync.  cameraRef.current is
\* set whenever the camera is ready.
captureFrame(c, a) ==
    IF ~c.enabled \/ ~a.mounted \/ ~c.isCameraReady THEN a
    ELSE IF c.isProcessing
    THEN IF c.enabled /\ a.mounted
         THEN [a EXCEPT !.timers = @ (+) SetToBag({c})]
         ELSE a
    ELSE [a EXCEPT !.isProcessing = TRUE,
                   !.pictures = @ (+) SetToBag({c})]

\* startCapture()
startCapture(c, a) == captureFrame(c, a)

\* The effect of useCamera on [enabled, isCameraReady], run by the render
\* that follows a change of either.
captureEffect(a) ==
    IF a.isDetecting /\ a.isCameraReady THEN startCapture(Closure(a), a)
    ELSE a

\* The end of onPictureSaved and of the catch block that leaves the loop
\* where it is.
afterCapture_NoRestart(c, a) ==
    IF a.mounted THEN [a EXCEPT !.isProcessing = FALSE] ELSE a

\* The end of onPictureSaved and of the catch block: setIsProcessing(false)
\* and the next captureFrame(), if mounted.
afterCapture(c, a) ==
    IF a.mounted
    THEN IF c.enabled /\ a.mounted
         THEN captureFrame(c, [a EXCEPT !.isProcessing = FALSE])
         ELSE [a EXCEPT !.isProcessing = FALSE]
    ELSE a

\* The body of the setInterval callback of useHeartbeatDetection: heartRate
\* after reading bpm = getBPM().
pollBPM(heartRate, bpm) == IF bpm # null THEN bpm ELSE heartRate

\* reset() of the hook that leaves heartRate alone.
hookReset_KeepsHeartRate(a) == a

\* reset() of useHeartbeatDetection, after detectorRef.current.reset():
\* setHeartRate(null).
hookReset(a) == [a EXCEPT !.heartRate = null]

\* The callback effect that installs a callback only once.
callbackEffect_KeepsInstalled(installed, onPeakDetected) == installed

\* The effect of useHeartbeatDetection on [onPeakDetected]: its cleanup
\* installs a no-op, then the new function is installed.
callbackEffect(installed, onPeakDetected) ==
    LET cleaned == "noop"
    IN  IF onPeakDetected # "null" THEN onPeakDetected ELSE cleaned

\* The component after its first render and its mount effects: not
\* detecting, the camera not ready yet, the first onPeakDetected installed
\* in a new detector; frames will come 50 ms apart.
InitApp ==
    /\ frameBuffer = <<>>
    /\ timestamps = <<>>
    /\ lastBpm = null
    /\ onPeakDetectedCallback = callbackEffect("null", Callbacks[1])
    /\ frameTime = 0
    /\ cadence = 50
    /\ signal = "pulse"
    /\ stallMs = StallMs
    /\ registered = [callback |-> "null", survivedReset |-> FALSE]
    /\ sinceReset = 0
    /\ stalls = 0
    /\ last = [op |-> "new", prevBpm |-> null, prevLength |-> 0,
               prevTimestamps |-> <<>>, pushed |-> 0,
               evicted |-> <<>>, callback |-> "null",
               invoked |-> <<>>, ran |-> FALSE, processedLength |-> 0,
               peakIndices |-> <<>>, calculatedBpm |-> null,
               prevInvoked |-> <<>>, prevPeakIndices |-> <<>>,
               observed |-> <<>>]
    /\ input = <<>>
    /\ call = NoCall
    /\ app = [NoApp EXCEPT !.mounted = TRUE, !.onPeakDetected = Callbacks[1]]

\* onCameraReady: handleCameraReady sets isCameraReady, the render that
\* follows runs the capture effect, and the handler, back from its await,
\* calls startCapture() of the render it belongs to if that was enabled.
CameraReady ==
    /\ app.mounted
    /\ ~app.isCameraReady
    /\ app' = LET rendered == captureEffect([app EXCEPT !.isCameraReady = TRUE])
              IN  IF app.isDetecting THEN startCapture(Closure(app), rendered)
                  ELSE rendered
    /\ UNCHANGED <<input, call, detector>>

\* toggleDetection(): heartbeat.reset() when detecting, then
\* setIsDetecting(!isDetecting); the render that follows runs the capture
\* effect and the polling effect, which sets heartRate to null and clears
\* its interval when disabled and starts an interval when enabled.
ToggleDetection ==
    /\ app.mounted
    /\ app.toggles < MaxToggles
    /\ IF app.isDetecting
       THEN /\ frameBuffer' = <<>>
            /\ timestamps' = <<>>
            /\ lastBpm' = null
            /\ sinceReset' = 0
            /\ frameTime' = 0
            /\ last' = Did("reset")
            /\ app' = captureEffect(
                          [hookReset(app) EXCEPT !.isDetecting = FALSE,
                                                 !.heartRate = null,
                                                 !.polling = FALSE,
                                                 !.toggles = @ + 1])
       ELSE /\ app' = captureEffect([app EXCEPT !.isDetecting = TRUE,
                                                !.polling = TRUE,
                                                !.toggles = @ + 1])
            /\ UNCHANGED <<frameBuffer, timestamps, lastBpm, sinceReset,
                           frameTime, last>>
    /\ UNCHANGED <<onPeakDetectedCallback, session, stalls, registered,
                   input, call>>

\* heartbeat.reset() called by the client while the detection goes on.
ResetHeartbeat ==
    /\ app.mounted
    /\ app.isDetecting
    /\ frameBuffer' = <<>>
    /\ timestamps' = <<>>
    /\ lastBpm' = null
    /\ sinceReset' = 0
    /\ frameTime' = 0
    /\ last' = Did("reset")
    /\ app' = hookReset(app)
    /\ UNCHANGED <<onPeakDetectedCallback, session, stalls, registered,
                   input, call>>

\* The component when onPictureSaved(photo) of a picture taken by the
\* captureFrame with closure c returns, in the state a of the component:
\* the picture is no longer being taken, the processing flag is cleared and
\* the loop goes on if mounted.  delivered alternates with every frame
\* handed to onFrameCapture.
afterPictureSaved(c, a) ==
    LET saved == [a EXCEPT !.pictures = @ (-) SetToBag({c})]
    IN  [afterCapture(c, saved) EXCEPT
            !.delivered = IF saved.mounted THEN 1 - @ ELSE @]

\* onPictureSaved(photo) of a picture taken by the captureFrame with
\* closure c, in the state a of the component and with the detector's
\* buffers fb / ts, estimate bpm and callback cb, the previous frame stored
\* at time and n frames stored since the last reset: the component and the
\* detector when the handler returns.  If mounted the frame goes to
\* onFrameCapture, that is to heartbeat.processFrame of the same render,
\* which hands it to the detector if its enabled holds; then the loop goes
\* on.  recorded is the record of the detector's processFrame call.
onPictureSaved(c, a, fb, ts, bpm, cb, time, n, recorded) ==
    LET delivered == a.mounted
        reaches   == delivered /\ c.enabled /\ a.mounted
        after     == afterPictureSaved(c, a)
    IN  IF ~reaches
        THEN [app |-> after, frameBuffer |-> fb, timestamps |-> ts,
              lastBpm |-> bpm, frameTime |-> time, sinceReset |-> n,
              last |-> recorded]
        ELSE LET now       == time + cadence
                 managed   == manageBufferSize(
                                  Append(fb, extractRedChannelAverage(
                                                 Frame(Red(signal, n)))),
                                  Append(ts, now), now)
                 processed == IF minFramesRequired <= Len(managed.frameBuffer)
                              THEN processBufferedData(managed.frameBuffer,
                                       managed.timestamps, bpm, cb)
                              ELSE NotProcessed(bpm)
             IN  [app |-> after,
                  frameBuffer |-> managed.frameBuffer,
                  timestamps |-> managed.timestamps,
                  lastBpm |-> processed.lastBpm,
                  frameTime |-> now,
                  sinceReset |-> n + 1,
                  last |-> [op |-> "processFrame", prevBpm |-> bpm,
                            prevLength |-> Len(fb),
                            prevTimestamps |-> ts, pushed |-> now,
                            evicted |-> managed.evicted, callback |-> cb,
                            invoked |-> processed.invoked,
                            ran |-> processed.ran,
                            processedLength |-> processed.processedLength,
                            peakIndices |-> processed.peakIndices,
                            calculatedBpm |-> processed.calculatedBpm,
                            prevInvoked |-> <<>>, prevPeakIndices |-> <<>>,
                            observed |-> <<>>]]

\* The camera hands over a picture it was taking.
PictureSaved ==
    /\ sinceReset < MaxFrames
    /\ \E c \in BagToSet(app.pictures) :
        \E returned \in {onPictureSaved(c, app, frameBuffer, timestamps,
                              lastBpm, onPeakDetectedCallback, frameTime,
                              sinceReset, last)} :
            /\ app' = returned.app
            /\ frameBuffer' = returned.frameBuffer
            /\ timestamps' = returned.timestamps
            /\ lastBpm' = returned.lastBpm
            /\ frameTime' = returned.frameTime
            /\ sinceReset' = returned.sinceReset
            /\ last' = returned.last
    /\ UNCHANGED <<onPeakDetectedCallback, session, stalls, registered,
                   input, call>>

\* takePictureAsync rejects: the catch block of the captureFrame with
\* closure c.
CaptureError ==
    /\ app.errors < MaxErrors
    /\ \E c \in BagToSet(app.pictures) :
           app' = [afterCapture(c, [app EXCEPT !.pictures = @ (-) SetToBag({c})])
                      EXCEPT !.errors = @ + 1]
    /\ UNCHANGED <<input, call, detector>>

\* The 10 ms timer set by the captureFrame with closure c fires.
RetryTimer ==
    /\ \E c \in BagToSet(app.timers) :
           app' = captureFrame(c, [app EXCEPT !.timers = @ (-) SetToBag({c})])
    /\ UNCHANGED <<input, call, detector>>

\* The 1000 ms interval of useHeartbeatDetection fires; it exists while
\* enabled, set by a render whose enabled holds.
PollTick ==
    /\ app.polling
    /\ app.mounted
    /\ app' = [app EXCEPT !.heartRate = pollBPM(@, getBPM)]
    /\ UNCHANGED <<input, call, detector>>

\* A render passes the next function as onPeakDetected: the callback
\* effect runs its cleanup and installs it.
ReplaceOnPeakDetected ==
    /\ app.mounted
    /\ \E k \in 1..Len(Callbacks) :
        /\ app.onPeakDetected = Callbacks[k]
        /\ k < Len(Callbacks)
        /\ app' = [app EXCEPT !.onPeakDetected = Callbacks[k + 1]]
        /\ onPeakDetectedCallback' =
               callbackEffect(onPeakDetectedCallback, Callbacks[k + 1])
    /\ UNCHANGED <<frameBuffer, timestamps, lastBpm, frameTime, session,
                   sinceReset, stalls, last, registered, input, call>>

\* The component unmounts: the cleanups clear isMountedRef and the
\* interval and install a no-op callback.
Unmount ==
    /\ app.mounted
    /\ app' = [app EXCEPT !.mounted = FALSE, !.polling = FALSE,
                          !.onPeakDetected = "null"]
    /\ onPeakDetectedCallback' = callbackEffect(onPeakDetectedCallback, "null")
    /\ UNCHANGED <<frameBuffer, timestamps, lastBpm, frameTime, session,
                   sinceReset, stalls, last, registered, input, call>>

NextApp ==
    \/ CameraReady
    \/ ToggleDetection
    \/ ResetHeartbeat
    \/ PictureSaved
    \/ CaptureError
    \/ RetryTimer
    \/ PollTick
    \/ ReplaceOnPeakDetected
    \/ Unmount

SpecApp == InitApp /\ [][NextApp]_vars

\* What a PictureSaved step does to the component: it is enabled exactly
\* when PictureSaved is, and a step of NextApp is one of these exactly when
\* it is a PictureSaved step (every other action leaves the pictures being
\* taken alone or counts an error).
PictureSavedSeen ==
    /\ sinceReset < MaxFrames
    /\ \E c \in BagToSet(app.pictures) : app' = afterPictureSaved(c, app)

\* The camera finishes every picture it is asked to take (takePictureAsync
\* settles), and a timer set with setTimeout fires.
SpecAppFair ==
    /\ SpecApp
    /\ WF_app(PictureSavedSeen)
    /\ WF_vars(RetryTimer)

\* ------------------------------------------- signal-processing functions

\* Bounds of the series handed to the signal-processing functions one at a
\* time: their length and levels, the window sizes and the peak distances.
MaxLen == 5
MaxLevel == 3
MaxWindow == 3
MaxDistance == 3
MaxTeeth == 4

\* The series of 2 * MaxTeeth + 1 samples that rise from 0 to a level of
\* 0..MaxLevel at every odd index: local maxima two samples apart.
Combs ==
    {[k \in 1..(2 * MaxTeeth + 1) |->
         IF k % 2 = 0 THEN Num(height[k \div 2]) ELSE 0] :
        height \in [1..MaxTeeth -> 0..MaxLevel]}

\* Every series of MaxLen samples or fewer with levels 0..MaxLevel, the
\* combs, and the first 12, 16 and 30 frames of the two camera signals.
Inputs ==
    UNION {[1..n -> {Num(v) : v \in 0..MaxLevel}] : n \in 0..MaxLen}
    \cup Combs
    \cup {[k \in 1..n |-> Num(Red(sig, k - 1))] :
              n \in {12, 16, 30}, sig \in {"pulse", "fading"}}

\* The cut sizes bandpassFilter is called with.
CutSizes == {<<1, 1>>, <<2, 3>>, <<10, 3>>}

\* A caller with a series at hand and no call made yet.
InitSignal ==
    /\ Constructed
    /\ cadence = 50
    /\ input \in Inputs
    /\ call = NoCall
    /\ app = NoApp

\* movingAverage(input, windowSize)
CallMovingAverage ==
    /\ call = NoCall
    /\ \E windowSize \in 1..MaxWindow :
           call' = [fn |-> "movingAverage", args |-> <<windowSize>>,
                    result |-> movingAverage(input, windowSize), peaks |-> <<>>]
    /\ UNCHANGED <<input, app, detector>>

\* detrend(input)
CallDetrend ==
    /\ call = NoCall
    /\ call' = [fn |-> "detrend", args |-> <<>>,
                result |-> detrend(input), peaks |-> <<>>]
    /\ UNCHANGED <<input, app, detector>>

\* normalize(input)
CallNormalize ==
    /\ call = NoCall
    /\ call' = [fn |-> "normalize", args |-> <<>>,
                result |-> normalize(input), peaks |-> <<>>]
    /\ UNCHANGED <<input, app, detector>>

\* bandpassFilter(input, lowCutSize, highCutSize)
CallBandpassFilter ==
    /\ call = NoCall
    /\ \E sizes \in CutSizes :
           call' = [fn |-> "bandpassFilter", args |-> sizes,
                    result |-> bandpassFilter(input, sizes[1], sizes[2]),
                    peaks |-> <<>>]
    /\ UNCHANGED <<input, app, detector>>

\* findPeaks(input, minHeight, minDistance), each optional argument given
\* or left out.
CallFindPeaks ==
    /\ call = NoCall
    /\ \E minHeight \in {undefined, Some(Num(1))},
          minDistance \in {undefined} \cup {Some(d) : d \in 1..MaxDistance} :
           call' = [fn |-> "findPeaks", args |-> <<minHeight, minDistance>>,
                    result |-> findPeaks(input, minHeight, minDistance),
                    peaks |-> <<>>]
    /\ UNCHANGED <<input, app, detector>>

\* processSignal(input) followed by the peak search of processBufferedData.
CallProcessSignal ==
    /\ call = NoCall
    /\ \E processedData \in {processSignal(input)} :
           call' = [fn |-> "processSignal", args |-> <<>>,
                    result |-> processedData,
                    peaks |-> findPeaks(processedData, undefined,
                                        Some(minPeakDistance))]
    /\ UNCHANGED <<input, app, detector>>

NextSignal ==
    \/ CallMovingAverage
    \/ CallDetrend
    \/ CallNormalize
    \/ CallBandpassFilter
    \/ CallFindPeaks
    \/ CallProcessSignal

SpecSignal == InitSignal /\ [][NextSignal]_vars

\* ------------------------------------------- normalize in floating point

\* The floating-point numbers 0 and 2^(Precision - 1)..2^Precision - 1.
Floats ==
    {Zero} \cup {<<m, 0>> : m \in (2 ^ (Precision - 1))..(2 ^ Precision - 1)}

\* A caller with a series of MaxLen floating-point samples or fewer.
InitRounded ==
    /\ Constructed
    /\ cadence = 50
    /\ input \in UNION {[1..n -> Floats] : n \in 0..MaxLen}
    /\ call = NoCall
    /\ app = NoApp

\* normalize(input)
CallNormalizeRounded ==
    /\ call = NoCall
    /\ call' = [fn |-> "normalize", args |-> <<>>,
                result |-> normalizeRounded(input), peaks |-> <<>>]
    /\ UNCHANGED <<input, app, detector>>

NextRounded == CallNormalizeRounded

SpecRounded == InitRounded /\ [][NextRounded]_vars

\* --------------------------------------------------------------- claims

\* b is a BPM inside [40, 200], bounds included.
WithinValidRange(b) == 40 * Unit <= b /\ b <= 200 * Unit

\* The latest processFrame call computed a BPM and it was out of range.
ComputedOutOfRange ==
    /\ last.op = "processFrame"
    /\ last.calculatedBpm # null
    /\ ~WithinValidRange(last.calculatedBpm[1])

\* The latest processFrame call found at least 2 peaks, the last of them
\* fewer than 5 positions before the end of the filtered signal.
FoundRecentPeak ==
    /\ last.op = "processFrame"
    /\ 2 <= Len(last.peakIndices)
    /\ last.processedLength - last.peakIndices[Len(last.peakIndices)] < 5

\* C1: a processFrame call on a detector with a stored estimate v that
\* computes a BPM outside [40, 200] leaves getBPM() = v.
C1_OutOfRangeKeepsEstimate ==
    (ComputedOutOfRange /\ last.prevBpm # null) => getBPM = last.prevBpm

C1_Witness ==
    /\ ComputedOutOfRange
    /\ last.prevBpm # null
    /\ getBPM = last.prevBpm

\* C2: once getBPM() is non-null, no call other than reset() makes it null,
\* and reset() makes it null from any state.
C2_StickyUntilReset ==
    [][/\ (lastBpm # null /\ lastBpm' = null) => (last'.op = "reset" /\ last' # last)
       /\ (last'.op = "reset" => lastBpm' = null)]_vars

\* reset() found a stored estimate and cleared it.
C2_Witness ==
    /\ last.op = "reset"
    /\ last.prevBpm # null
    /\ getBPM = null

\* C3: getBPM() is null after each of the first 99 processFrame calls on a
\* new or freshly reset detector.
C3_NoEstimateBefore100Frames == sinceReset <= 99 => getBPM = null

C3_Witness ==
    /\ last.op = "processFrame"
    /\ sinceReset = 99
    /\ Len(frameBuffer) = 99
    /\ getBPM = null

\* C4: right after reset() getBPM() is null and the value buffer and the
\* timestamp buffer are empty.
C4_ResetClears ==
    last.op = "reset" => (getBPM = null /\ Len(getBuffer) = 0 /\ Len(timestamps) = 0)

\* reset() of a detector with a stored estimate and a full buffer.
C4_Witness ==
    /\ last.op = "reset"
    /\ last.prevBpm # null
    /\ minFramesRequired <= last.prevLength
    /\ Len(getBuffer) = 0

\* C5: getBPM() is null or a value in [40, 200], bounds included.
C5_EstimateInRange == getBPM = null \/ WithinValidRange(getBPM[1])

\* The stored estimate is exactly 200.
C5_Witness == getBPM = Some(200 * Unit)

\* C6: the value buffer and the timestamp buffer have equal length.
C6_BuffersSameLength == Len(frameBuffer) = Len(timestamps)

\* A processFrame call that evicted samples and kept others.
C6_Witness ==
    /\ last.op = "processFrame"
    /\ 0 < Len(last.evicted)
    /\ 0 < Len(frameBuffer)
    /\ Len(frameBuffer) = Len(timestamps)

\* C7: when processFrame returns, no retained timestamp is more than
\* 10000 ms behind the one it appended, and the retained timestamps are the
\* former ones plus the new one with only a front part removed.
C7_RetentionWindow ==
    last.op = "processFrame" =>
        LET appended == Append(last.prevTimestamps, last.pushed)
        IN  /\ \A k \in 1..Len(timestamps) : last.pushed - timestamps[k] <= 10000
            /\ \E n \in 0..Len(appended) :
                   timestamps = SubSeq(appended, n + 1, Len(appended))

\* A processFrame call that evicted stale samples.
C7_Witness ==
    /\ last.op = "processFrame"
    /\ 0 < Len(last.evicted)
    /\ Len(timestamps) = Len(last.prevTimestamps) + 1 - Len(last.evicted)

\* C8 as stated: a sample is evicted by a processFrame call only if its
\* timestamp is more than 10000 ms behind the timestamp that call stored.
C8_EvictionAnchoredAtStoredTimestamp ==
    last.op = "processFrame" =>
        \A k \in 1..Len(last.evicted) :
            10000 < last.pushed - last.evicted[k].timestamp

\* C8 amended: a sample is evicted by a processFrame call only if its
\* timestamp is more than 10000 ms behind the clock value manageBufferSize
\* read after the append, one reading for the whole call.
C8_EvictionAnchoredAtSecondReading ==
    last.op = "processFrame" =>
        \A k \in 1..Len(last.evicted) :
            /\ 10000 < last.evicted[k].currentTime - last.evicted[k].timestamp
            /\ last.evicted[k].currentTime = last.evicted[1].currentTime

\* A sample evicted against a reading later than the stored timestamp.
C8_Witness ==
    /\ last.op = "processFrame"
    /\ \E k \in 1..Len(last.evicted) : last.pushed < last.evicted[k].currentTime

\* C9: a processFrame call invokes the registered callback at most once,
\* and only when it found at least 2 peaks with the last one fewer than 5
\* positions before the end of the filtered signal.
C9_CallbackAtMostOnceAndRecent ==
    last.op = "processFrame" =>
        /\ Len(last.invoked) <= 1
        /\ Len(last.invoked) = 1 =>
               (FoundRecentPeak /\ last.invoked[1] = last.callback)

C9_Witness ==
    /\ last.op = "processFrame"
    /\ Len(last.invoked) = 1

\* C10: a processFrame call that finds at least 2 peaks with the last one
\* fewer than 5 positions before the end invokes the registered callback,
\* whether or not the computed BPM is in [40, 200].
C10_CallbackIndependentOfRange ==
    (FoundRecentPeak /\ last.callback # "null") => last.invoked = <<last.callback>>

\* The callback fired in a call whose BPM was out of range.
C10_Witness ==
    /\ FoundRecentPeak
    /\ ComputedOutOfRange
    /\ last.callback # "null"
    /\ last.invoked = <<last.callback>>

\* C11: a callback registered before reset() and not registered again is
\* still the one the detector holds, and the one every beat event of a
\* processFrame call after the reset invokes.
C11_CallbackSurvivesReset ==
    registered.survivedReset =>
        /\ onPeakDetectedCallback = registered.callback
        /\ last.op = "processFrame" =>
               last.invoked = IF FoundRecentPeak THEN <<registered.callback>>
                              ELSE <<>>

\* A beat event after a reset invoked the callback registered before it.
C11_Witness ==
    /\ registered.survivedReset
    /\ last.op = "processFrame"
    /\ last.invoked = <<registered.callback>>

\* C12: the detector holds one callback, the latest one registered: a
\* setOnPeakDetectedCallback call makes its argument the callback held and
\* changes neither the buffers nor the stored BPM, and a processFrame call
\* invokes no callback but the latest one registered.
C12_LatestCallbackOnly ==
    [][/\ registered'.callback # registered.callback =>
              /\ onPeakDetectedCallback' = registered'.callback
              /\ frameBuffer' = frameBuffer
              /\ timestamps' = timestamps
              /\ lastBpm' = lastBpm
       /\ sinceReset' = sinceReset + 1 =>
              last'.invoked \in {<<>>, <<registered.callback>>}]_vars

\* A beat event invoked the second callback registered, which replaced the
\* first.
C12_Witness ==
    /\ registered.callback = Callbacks[2]
    /\ last.op = "processFrame"
    /\ last.callback = Callbacks[2]
    /\ last.invoked = <<Callbacks[2]>>
    /\ lastBpm # null

\* C13: a processFrame call whose peak search returns fewer than 2 peaks
\* leaves the stored BPM as it found it and invokes no callback.
C13_FewerThanTwoPeaksNoOp ==
    (last.op = "processFrame" /\ last.ran /\ Len(last.peakIndices) < 2) =>
        (getBPM = last.prevBpm /\ last.invoked = <<>>)

\* The pipeline ran on a detector with a stored BPM and a callback, and
\* found fewer than 2 peaks.
C13_Witness ==
    /\ last.op = "processFrame"
    /\ last.ran
    /\ Len(last.peakIndices) < 2
    /\ last.prevBpm # null
    /\ last.callback # "null"
    /\ getBPM = last.prevBpm

\* C14: a processFrame call that leaves fewer than 100 samples in the
\* buffer, eviction included, does not run the pipeline: the stored BPM is
\* as the call found it and no callback is invoked.
C14_BelowMinimumNoOp ==
    (last.op = "processFrame" /\ Len(frameBuffer) < 100) =>
        (~last.ran /\ getBPM = last.prevBpm /\ last.invoked = <<>>)

\* Late in a session, eviction shrank a buffer of 100 samples or more, with
\* a BPM stored and a callback registered, below 100.
C14_Witness ==
    /\ last.op = "processFrame"
    /\ Len(frameBuffer) < 100
    /\ 100 <= last.prevLength
    /\ 0 < Len(last.evicted)
    /\ last.prevBpm # null
    /\ last.callback # "null"
    /\ ~last.ran

\* The intervals between the timestamps stored at consecutive peaks of the
\* latest processFrame call, their positive ones counted and added up.
PeakIntervals ==
    [k \in 1..(Len(last.peakIndices) - 1) |->
        timestamps[last.peakIndices[k + 1] + 1] - timestamps[last.peakIndices[k] + 1]]

PositiveIntervals == {k \in DOMAIN PeakIntervals : 0 < PeakIntervals[k]}

PositiveTotal ==
    Sum([k \in DOMAIN PeakIntervals |->
            IF k \in PositiveIntervals THEN PeakIntervals[k] ELSE 0])

\* The latest processFrame call stored the BPM it computed.
UpdatedEstimate ==
    /\ last.op = "processFrame"
    /\ last.calculatedBpm # null
    /\ getBPM = last.calculatedBpm

\* C15: the BPM a processFrame call stores is 60000 divided by the mean of
\* the positive intervals between the buffer timestamps at consecutive
\* peaks (60000 * count / total), to one step of the number grid;
\* non-positive intervals count for nothing.
C15_BpmFromPositiveIntervals ==
    UpdatedEstimate =>
        /\ PositiveIntervals # {}
        /\ getBPM[1] * PositiveTotal - 60000 * Cardinality(PositiveIntervals) * Unit
               \in (0 - PositiveTotal)..PositiveTotal

\* A BPM was stored from peaks with both positive and non-positive
\* intervals between them.
C15_Witness ==
    /\ UpdatedEstimate
    /\ PositiveIntervals # {}
    /\ PositiveIntervals # DOMAIN PeakIntervals

\* C16: a processFrame call that finds 2 peaks or more with no positive
\* interval between their timestamps completes, computes no usable BPM and
\* leaves the stored BPM as it found it.
C16_DegenerateTimingNoOp ==
    (last.op = "processFrame" /\ 2 <= Len(last.peakIndices) /\ PositiveIntervals = {}) =>
        (last.calculatedBpm # null /\ getBPM = last.prevBpm)

\* Four peaks found in frames that all carry the same timestamp.
C16_Witness ==
    /\ last.op = "processFrame"
    /\ 2 <= Len(last.peakIndices)
    /\ \A k \in 1..Len(timestamps) : timestamps[k] = timestamps[1]
    /\ PositiveIntervals = {}
    /\ getBPM = last.prevBpm

\* C17: movingAverage, detrend, bandpassFilter and normalize each return as
\* many samples as they are given; processSignal is movingAverage with
\* window 5, then detrend, then bandpassFilter with cut sizes 10 and 3, then
\* normalize, its output is as long as the buffer, and every peak found in
\* it is an index of the buffer.
C17_FiltersKeepLength ==
    /\ call.fn \in {"movingAverage", "detrend", "bandpassFilter", "normalize",
                    "processSignal"} =>
           Len(call.result) = Len(input)
    /\ call.fn = "processSignal" =>
           /\ call.result =
                  normalize(bandpassFilter(detrend(movingAverage(input, 5)), 10, 3))
           /\ \A k \in 1..Len(call.peaks) : call.peaks[k] \in 0..(Len(input) - 1)

\* The pipeline ran on 30 frames and peaks were found in its output.
C17_Witness ==
    /\ call.fn = "processSignal"
    /\ Len(input) = 30
    /\ Len(call.result) = 30
    /\ 0 < Len(call.peaks)

\* The 0-based indices of a series that are strictly above both neighbours.
LocalMaxima(series) ==
    {i \in 1..(Len(series) - 2) :
        series[i] < series[i + 1] /\ series[i + 2] < series[i + 1]}

\* A series that never falls, or never rises.
Monotonic(series) ==
    \/ \A k \in 1..(Len(series) - 1) : series[k] <= series[k + 1]
    \/ \A k \in 1..(Len(series) - 1) : series[k + 1] <= series[k]

\* findPeaks was called on input with the given optional arguments.
FoundPeaks(minHeight, minDistance) ==
    /\ call.fn = "findPeaks"
    /\ call.args = <<minHeight, minDistance>>

\* C18: findPeaks without minHeight and minDistance returns, ascending,
\* exactly the indices strictly above both neighbours: none for a series
\* shorter than 3, none for a monotonic series, and none whose sample equals
\* a neighbour.
C18_StrictLocalMaxima ==
    FoundPeaks(undefined, undefined) =>
        /\ {call.result[k] : k \in 1..Len(call.result)} = LocalMaxima(input)
        /\ \A k \in 1..(Len(call.result) - 1) : call.result[k] < call.result[k + 1]
        /\ Len(input) < 3 => call.result = <<>>
        /\ Monotonic(input) => call.result = <<>>
        /\ \A k \in 1..Len(call.result) :
               /\ input[call.result[k] + 1] # input[call.result[k]]
               /\ input[call.result[k] + 1] # input[call.result[k] + 2]

\* Two peaks found in a series of 5 samples.
C18_Witness ==
    /\ FoundPeaks(undefined, undefined)
    /\ Len(input) = 5
    /\ call.result = <<1, 3>>

\* The peaks kept by a scan of the local maxima of a series from index i on,
\* kept being those kept before i: a local maximum d or more after the last
\* kept peak is added, a closer one replaces it if strictly higher and is
\* dropped otherwise.
RECURSIVE KeptFrom(_, _, _, _)
KeptFrom(series, d, i, kept) ==
    IF Len(series) - 2 < i THEN kept
    ELSE KeptFrom(series, d, i + 1,
             IF i \notin LocalMaxima(series) THEN kept
             ELSE IF kept = <<>> THEN <<i>>
             ELSE IF d <= i - kept[Len(kept)] THEN Append(kept, i)
             ELSE IF series[kept[Len(kept)] + 1] < series[i + 1]
                  THEN [kept EXCEPT ![Len(kept)] = i]
                  ELSE kept)

\* C19: findPeaks with minDistance d returns the peaks kept by the scan:
\* a local maximum d or more after the last kept peak is added, a closer one
\* replaces it only if strictly higher; for 1, 3, 1, 3, 1 and d = 3 the
\* result is the single index 1.
C19_MinDistanceRule ==
    \A d \in 1..MaxDistance :
        FoundPeaks(undefined, Some(d)) =>
            /\ call.result = KeptFrom(input, d, 1, <<>>)
            /\ (d = 3 /\ input = <<Num(1), Num(3), Num(1), Num(3), Num(1)>>) =>
                   call.result = <<1>>

\* findPeaks kept index 1 of 1, 3, 1, 3, 1 with minDistance 3.
C19_Witness ==
    /\ FoundPeaks(undefined, Some(3))
    /\ input = <<Num(1), Num(3), Num(1), Num(3), Num(1)>>
    /\ call.result = <<1>>

\* The sum of the samples of a series at the 0-based indices from..to.
RECURSIVE Total(_, _, _)
Total(series, from, to) ==
    IF to < from THEN 0 ELSE series[from + 1] + Total(series, from + 1, to)

\* C20: movingAverage(series, windowSize) returns as many samples as it is
\* given, the one at index i being the mean of the samples at indices
\* max(0, i - windowSize + 1)..i, to the nearest step of the number grid.
C20_CausalWindowMean ==
    call.fn = "movingAverage" =>
        /\ Len(call.result) = Len(input)
        /\ \A i \in 0..(Len(input) - 1) :
               LET windowSize == call.args[1]
                   from  == IF i - windowSize + 1 < 0 THEN 0 ELSE i - windowSize + 1
                   count == i - from + 1
                   gap   == count * call.result[i + 1] - Total(input, from, i)
               IN  2 * gap \in (0 - count)..count

\* movingAverage with window 3 on 5 samples: the first output is the first
\* sample, the last one the exact mean of the last three, which differ.
C20_Witness ==
    /\ call.fn = "movingAverage"
    /\ call.args = <<3>>
    /\ Len(input) = 5
    /\ call.result[1] = input[1]
    /\ 3 * call.result[5] = input[3] + input[4] + input[5]
    /\ input[3] # input[5]

\* The lagged difference of a series: the sample itself before index
\* lowCutSize, from there on the sample minus the one lowCutSize earlier,
\* both read from the series as given.
LaggedDifference(series, lowCutSize) ==
    [k \in 1..Len(series) |->
        IF k - 1 < lowCutSize THEN series[k]
        ELSE series[k] - series[k - lowCutSize]]

\* C21: bandpassFilter(series, lowCutSize, highCutSize) is
\* movingAverage(h, highCutSize), h being the lagged difference of the
\* series computed from the original samples: every output is the mean of
\* h over its causal window of highCutSize samples, to the nearest step of
\* the number grid.
C21_BandpassIsAveragedLaggedDifference ==
    call.fn = "bandpassFilter" =>
        LET lowCutSize  == call.args[1]
            highCutSize == call.args[2]
            h == LaggedDifference(input, lowCutSize)
        IN  /\ call.result = movingAverage(h, highCutSize)
            /\ Len(call.result) = Len(input)
            /\ \A i \in 0..(Len(input) - 1) :
                   LET from  == IF i - highCutSize + 1 < 0 THEN 0
                                ELSE i - highCutSize + 1
                       count == i - from + 1
                       gap   == count * call.result[i + 1] - Total(h, from, i)
                   IN  2 * gap \in (0 - count)..count

\* bandpassFilter with cut sizes 1 and 1 on three samples, the first not 0:
\* the last output is the third sample minus the second as given, which is
\* not the third minus an already-differenced second.
C21_Witness ==
    /\ call.fn = "bandpassFilter"
    /\ call.args = <<1, 1>>
    /\ Len(input) = 3
    /\ input[1] # 0
    /\ call.result[3] = input[3] - input[2]
    /\ call.result[3] # input[3] - (input[2] - input[1])

\* C26: for every minDistance d >= 1 the indices findPeaks returns are
\* strictly increasing and two consecutive ones are d or more apart, with
\* or without minHeight, also when a higher local maximum has taken the
\* place of a peak accepted before it.
C26_PeaksAscendingAndSpaced ==
    \A d \in 1..MaxDistance :
        (call.fn = "findPeaks" /\ call.args[2] = Some(d)) =>
            \A k \in 1..(Len(call.result) - 1) :
                /\ call.result[k] < call.result[k + 1]
                /\ d <= call.result[k + 1] - call.result[k]

\* findPeaks with minDistance 3 on a comb: index 1 was accepted, the higher
\* tooth at index 3 replaced it, and index 7 was added after it.
C26_Witness ==
    /\ FoundPeaks(undefined, Some(3))
    /\ input \in Combs
    /\ 0 < input[2]
    /\ input[2] < input[4]
    /\ call.result = <<3, 7>>

\* A series whose samples are all the same.
Constant(series) == \A k \in 1..Len(series) : series[k] = series[1]

\* C22: normalize returns an empty sequence for an empty series and, for
\* every constant series that is not empty, as many zeros as it was given
\* samples.
C22_ConstantSeriesNormalizesToZeros ==
    call.fn = "normalize" =>
        /\ input = <<>> => call.result = <<>>
        /\ (input # <<>> /\ Constant(input)) =>
               call.result = [k \in 1..Len(input) |-> Zero]

\* The timestamp stored for the last peak of a processFrame call that found
\* the given peaks in a buffer with the given timestamps.
LastPeakTime(peakIndices, ts) == ts[peakIndices[Len(peakIndices)] + 1]

\* C24: the callback is not de-duplicated per heartbeat.  A processFrame
\* call that follows one in which the callback fired, and that again finds
\* at least 2 peaks with the last one fewer than 5 positions before the end,
\* fires the registered callback again.
C24_NoDeduplication ==
    (/\ FoundRecentPeak
     /\ Len(last.prevInvoked) = 1
     /\ last.callback # "null") => last.invoked = <<last.callback>>

\* The callback fired in two processFrame calls in a row for the same
\* physical peak: the last peak of both calls is the same stored sample.
C24_Witness ==
    /\ FoundRecentPeak
    /\ Len(last.prevInvoked) = 1
    /\ Len(last.invoked) = 1
    /\ LastPeakTime(last.peakIndices, timestamps)
           = LastPeakTime(last.prevPeakIndices, last.prevTimestamps)

\* C27: in a processFrame call the estimate is stored before the callback
\* runs, and nothing runs after the callback.  A callback that calls
\* getBPM() is returned the estimate the detector holds when processFrame
\* returns, which is the BPM computed from this frame when that is valid
\* and the estimate held before the call otherwise; after a callback that
\* calls reset() the detector returns with empty buffers and no estimate.
C27_UpdateThenCallbackLast ==
    (last.op = "processFrame" /\ Len(last.invoked) = 1) =>
        /\ last.invoked = <<"f">> =>
               /\ last.observed = <<getBPM>>
               /\ getBPM = IF isValidBpm(last.calculatedBpm[1])
                           THEN last.calculatedBpm
                           ELSE last.prevBpm
               /\ Len(frameBuffer) = last.processedLength
        /\ last.invoked = <<"g">> =>
               /\ frameBuffer = <<>>
               /\ timestamps = <<>>
               /\ getBPM = null

\* A callback calling getBPM() was returned the BPM computed from this
\* frame, which is not the estimate held before the call.
C27_Witness ==
    /\ last.op = "processFrame"
    /\ last.invoked = <<"f">>
    /\ last.observed = <<last.calculatedBpm>>
    /\ last.calculatedBpm # last.prevBpm
    /\ last.prevBpm # null

\* A callback calling reset() ran in a call that computed a valid BPM, and
\* the detector returned empty.
C27_ResetWitness ==
    /\ last.op = "processFrame"
    /\ last.invoked = <<"g">>
    /\ isValidBpm(last.calculatedBpm[1])
    /\ frameBuffer = <<>>
    /\ getBPM = null

\* C23: the capture loop never has more than one picture being taken,
\* however captures, capture errors, retry timers, presses of the start /
\* stop button and renders interleave; every frame is handed to the
\* detector by the onPictureSaved handler of its own picture, which runs
\* processFrame and its callback to the end before it takes the next one.
C23_OneCaptureInFlight == BagCardinality(app.pictures) <= 1

\* Detection was started, stopped and started again: the loop of the first
\* start has a picture in flight while the captureFrame of the second start
\* waits on its retry timer.
C23_Witness ==
    /\ app.mounted
    /\ app.isDetecting
    /\ app.toggles = 3
    /\ BagCardinality(app.pictures) = 1
    /\ BagCardinality(app.timers) = 1

\* C25: once the user has stopped the detection no frame reaches the
\* detector: while the component is not detecting the buffer of the
\* detector is empty and getBPM() is null.
C25_StoppedDetectorStaysEmpty ==
    (app.mounted /\ ~app.isDetecting) =>
        /\ getBuffer = <<>>
        /\ getBPM = null

\* The component is mounted and detecting and the camera is ready.
Looping == app.mounted /\ app.isDetecting /\ app.isCameraReady

\* C28: while the detection is enabled, the component mounted and the
\* camera ready, the capture loop does not stall: a picture is being taken
\* at every moment, and another frame is eventually delivered to
\* onFrameCapture, unless the detection is stopped, the component unmounts
\* or the run reaches its last frame.
C28_CaptureLoopNeverStalls ==
    /\ [](Looping => app.pictures # EmptyBag)
    /\ \A b \in {0, 1} :
           (Looping /\ app.delivered = b)
               ~> \/ app.delivered # b
                  \/ ~Looping
                  \/ sinceReset = MaxFrames

\* A frame was delivered after a capture error and after a timer was set.
C28_Witness ==
    /\ Looping
    /\ app.errors = 1
    /\ app.timers # EmptyBag
    /\ 0 < Len(getBuffer)

\* C29: heartRate is null whenever the detection is disabled, it is null
\* right after reset() and as long as the detector has no BPM, and a step
\* that changes it either sets it to null or copies a BPM that getBPM()
\* holds.
C29_HeartRateFollowsDetector ==
    /\ [](~app.isDetecting => app.heartRate = null)
    /\ [](app.heartRate # null => getBPM # null)
    /\ [][app'.heartRate # app.heartRate =>
              \/ app'.heartRate = null
              \/ app'.heartRate = getBPM /\ getBPM # null]_vars

\* The poll copied a BPM computed after a stop, which had reset heartRate.
C29_Witness ==
    /\ app.toggles = 3
    /\ app.heartRate # null
    /\ app.heartRate = getBPM

\* C30: the detector holds the function passed as onPeakDetected by the
\* latest render while mounted and a no-op after the unmount, and a beat
\* event invokes the function of the latest render only, never one passed
\* before.
C30_OnlyLatestOnPeakDetected ==
    /\ [](onPeakDetectedCallback =
              IF app.mounted THEN app.onPeakDetected ELSE "noop")
    /\ [][sinceReset' = sinceReset + 1 =>
              \A k \in 1..Len(last'.invoked) :
                  /\ app'.mounted
                  /\ last'.invoked[k] = app'.onPeakDetected]_vars

\* A beat event invoked the second function passed as onPeakDetected.
C30_Witness ==
    /\ last.op = "processFrame"
    /\ last.invoked = <<Callbacks[2]>>
    /\ app.onPeakDetected = Callbacks[2]

====
